---- MODULE Spec2Model ----
(***************************************************************************)
(* Position detail routes of aster_lick_hunter                             *)
(* (src/api/routes/position_routes.py):                                    *)
(*   close_position        POST /api/positions/<symbol>/<side>/close       *)
(*   get_position_details  GET  /api/positions/<symbol>/<side>             *)
(* Quantities and prices are integers (units of the smallest step); the    *)
(* rounding of Python floats is not modelled.                              *)
(***************************************************************************)
EXTENDS Integers, Sequences, FiniteSets, TLC

(***************************************************************************)
(* Bounds of the model                                                     *)
(***************************************************************************)
MaxAmt == 1
MaxPositions == 2
MaxQty == 3
MaxTranches == 2
MaxOrderId == 2
MaxRels == 2
MaxInvocations == 2
MaxBookAmt == 2

\* the two concurrent requests the route can serve; Spec runs one of them
Procs == {"r1", "r2"}
Symbols == {"BTCUSDT", "ETHUSDT"}
\* the symbol requests are made for (the two symbols are interchangeable)
ReqSymbols == {"BTCUSDT"}
ReqSides == {"LONG", "SHORT", "BOTH"}
\* statuses other than 200 that the exchange answers with
FailStatuses == {400, 503}
Bodies == {"insufficient margin", "rate limited"}

Abs(x) == IF x < 0 THEN -x ELSE x

\* str() of a status code inside an f-string
StatusStr(s) ==
    CASE s = 200 -> "200" [] s = 400 -> "400" [] s = 404 -> "404"
      [] s = 500 -> "500" [] s = 503 -> "503" [] OTHER -> "?"

\* str(quantity) of the float abs(position_amt)
QtyStr(q) ==
    CASE q = 0 -> "0.0" [] q = 1 -> "1.0" [] q = 2 -> "2.0"
      [] q = 3 -> "3.0" [] OTHER -> "4.0"

VARIABLES
    positions,      \* the exchange's answer to GET /fapi/v2/positionRisk
    config,         \* src.utils.config: whether it can be read, and its settings
    trades,         \* the ledger's trades table
    exchangeOrders, \* orders that reached POST /fapi/v1/order
    pc,             \* close_position: where each request is
    args,           \* close_position: (symbol, side) of each request
    target,         \* close_position: target_position
    order_data,     \* close_position: order_data
    order_result,   \* close_position: order_response.json()
    calls,          \* close_position: the external calls made, in order
    replies,        \* close_position: status and text of each exchange reply
    result,         \* close_position: the (json, status) returned
    invocation,     \* close_position: which invocation of the request this
                    \* is, and the list its position fetch was answered with
    credentials,    \* src.api.config: API_KEY and API_SECRET are both set
    position_tranches,         \* the ledger's position_tranches table
    order_relationships_table, \* the ledger's order_relationships table
    order_status,   \* the ledger's order_status table (the cache)
    open_orders,    \* the exchange's answer to GET /fapi/v1/openOrders
    rpc,            \* get_position_details: where the read is
    rargs,          \* get_position_details: (symbol, side)
    exchange_position,   \* get_position_details: exchange_position
    tranches,            \* get_position_details: tranches
    trade_rows,          \* get_position_details: trades
    order_relationships, \* get_position_details: order_relationships
    tp_order_ids,        \* get_position_details: tp_order_ids
    sl_order_ids,        \* get_position_details: sl_order_ids
    order_statuses,      \* get_position_details: order_statuses
    summary,             \* get_position_details: the response's summary
    failures             \* get_position_details: the order-status lookups
                         \* whose failure a try/except swallowed

closeVars == <<positions, config, trades, exchangeOrders, pc, args, target,
               order_data, order_result, calls, replies, result, invocation>>
ledgerVars == <<credentials, position_tranches, order_relationships_table,
                order_status, open_orders>>
readVars == <<rpc, rargs, exchange_position, tranches, trade_rows,
              order_relationships, tp_order_ids, sl_order_ids, order_statuses,
              summary, failures>>
vars == <<closeVars, ledgerVars, readVars>>

(***************************************************************************)
(* Exchange positions.  In one-way mode the entry's positionSide is BOTH   *)
(* (or the key is missing, "ABSENT"); in hedge mode a LONG entry has a     *)
(* non-negative and a SHORT entry a non-positive amount.                   *)
(***************************************************************************)
Amounts == (-MaxAmt)..MaxAmt

Position(s, a, ps, entry, mark, margin) ==
    [symbol |-> s, positionAmt |-> a, positionSide |-> ps,
     entryPrice |-> entry, markPrice |-> mark, initialMargin |-> margin]

\* close_position reads the symbol, the amount and the position side only;
\* the entries of the symbol that is not asked for are one-way entries
ClosePositionRecs ==
    { r \in { Position(s, a, ps, 100, 100, 10) :
                s \in Symbols,
                a \in Amounts,
                ps \in {"BOTH", "ABSENT", "LONG", "SHORT"} } :
        /\ r.positionSide = "LONG" => r.positionAmt >= 0
        /\ r.positionSide = "SHORT" => r.positionAmt =< 0
        /\ r.symbol \notin ReqSymbols => r.positionSide = "BOTH" }

SeqsUpTo(S, n) == UNION { [1..k -> S] : k \in 0..n }

NoPosition == Position("", 0, "ABSENT", 0, 0, 0)
NoOrder == [symbol |-> "", side |-> "", type |-> "", quantity |-> "",
            positionSide |-> "", reduceOnly |-> "absent"]
NoOrderResult == [orderId |-> "", avgPrice |-> 0]
NoArgs == [symbol |-> "", side |-> ""]
NoInvocation == [n |-> 0, fetched |-> <<>>]
NoResult == [success |-> FALSE, status_code |-> 0, simulated |-> FALSE,
             order_id |-> "", order_side |-> "", quantity |-> 0,
             error |-> <<>>]

\* pos.get('positionSide', 'BOTH')
PositionSideOf(pos) ==
    IF pos.positionSide = "ABSENT" THEN "BOTH" ELSE pos.positionSide

\* 'LONG' if position_amt > 0 else 'SHORT'
CurrentSide(amt) == IF amt > 0 THEN "LONG" ELSE "SHORT"

\* (mutant) the scan without the comparison of the side
MatchesAnySide(pos, symbol, side) ==
    /\ pos.symbol = symbol
    /\ pos.positionAmt # 0

\* the condition under which the scan of close_position takes an entry
Matches(pos, symbol, side) ==
    /\ pos.symbol = symbol
    /\ pos.positionAmt # 0
    /\ side # "BOTH" => CurrentSide(pos.positionAmt) = side

\* the for loop over positions: the first entry taken, or NoPosition
FindTarget(plist, symbol, side) ==
    LET hits == { i \in 1..Len(plist) : Matches(plist[i], symbol, side) }
    IN  IF hits = {} THEN NoPosition
        ELSE plist[CHOOSE i \in hits : \A j \in hits : i =< j]

\* order_side: the opposite of the position's direction
OrderSide(amt) == IF CurrentSide(amt) = "LONG" THEN "SELL" ELSE "BUY"

\* (mutant) reduceOnly left out of every order
ReduceOnlyNever(position_side) == "absent"

\* (mutant) reduceOnly added to every order
ReduceOnlyAlways(position_side) == "true"

\* reduceOnly is added only in one-way mode
ReduceOnly(position_side) == IF position_side = "BOTH" THEN "true" ELSE "absent"

\* the market order that closes pos
BuildOrder(symbol, pos) ==
    [symbol |-> symbol,
     side |-> OrderSide(pos.positionAmt),
     type |-> "MARKET",
     quantity |-> QtyStr(Abs(pos.positionAmt)),
     positionSide |-> PositionSideOf(pos),
     reduceOnly |-> ReduceOnly(PositionSideOf(pos))]

\* src.utils.config as the routes read it
Config(available, simulate_only, configured, leverage) ==
    [available |-> available, SIMULATE_ONLY |-> simulate_only,
     configured |-> configured, leverage |-> leverage]

\* (mutant) the simulation switch never taken
SimulateOnlyIgnored(cfg) == FALSE

\* config.SIMULATE_ONLY; a failing lookup is swallowed by the bare except
SimulateOnly(cfg) == cfg.available /\ cfg.SIMULATE_ONLY

\* jsonify({... 'success': False}), status
Failure(status, error) ==
    [success |-> FALSE, status_code |-> status, simulated |-> FALSE,
     order_id |-> "", order_side |-> "", quantity |-> 0, error |-> error]

\* except Exception as e: 'Internal error: ...', 500
InternalError == Failure(500, <<"Internal error: ", "transport error">>)

\* the position fetch answered with a status other than 200
FetchFailure(s) ==
    Failure(s, <<"Failed to fetch position data: ", StatusStr(s)>>)

\* no entry of the list was taken
PositionNotFound(symbol, side) ==
    Failure(404, <<"No open position found for ", symbol, side>>)

\* the located entry has no size
NoPositionSize(symbol, side) ==
    Failure(400, <<"No position size for ", symbol, side>>)

\* (mutant) the upstream status replaced by 500
OrderSubmissionFailedAs500(s, body) ==
    Failure(500, <<"Failed to place close order: ", body>>)

\* the order was answered with a status other than 200
OrderSubmissionFailed(s, body) ==
    Failure(s, <<"Failed to place close order: ", body>>)

\* a reply of the exchange, and a request that raised instead
Reply(s, text) == [status |-> s, text |-> text]
Raised == Reply(0, "raised")

\* the simulated answer
Simulated ==
    [success |-> TRUE, status_code |-> 200, simulated |-> TRUE,
     order_id |-> "", order_side |-> "", quantity |-> 0, error |-> <<>>]

\* the answer after an accepted order
Succeeded(order_id, order_side, quantity) ==
    [success |-> TRUE, status_code |-> 200, simulated |-> FALSE,
     order_id |-> order_id, order_side |-> order_side, quantity |-> quantity,
     error |-> <<>>]

\* (mutant) a failed audit write turned into a failure of the request
AfterAuditStrict(written, success) ==
    IF written THEN success
    ELSE Failure(500, <<"Internal error: ", "ledger error">>)

\* the audit write sits in its own try/except: whether or not the row was
\* written, the answer is the success built from the exchange's reply
AfterAudit(written, success) == success

\* the row insert_trade is called with
TradeRow(symbol, order_id, side, qty, res) ==
    [symbol |-> symbol, order_id |-> order_id, side |-> side, qty |-> qty,
     price |-> 0, status |-> "SUCCESS", order_type |-> "MARKET",
     parent_order_id |-> "NULL", filled_qty |-> qty, avg_price |-> res.avgPrice]

\* insert_trade appends one row to the trades table
InsertTrade(table, row) == Append(table, row)

(***************************************************************************)
(* get_position_details: the ledger's rows and the pure steps of the read  *)
(***************************************************************************)
\* order ids are positive; 0 stands for NULL (falsy in the code's tests)
OrderIds == 1..MaxOrderId

\* str(order_id)
Str(id) ==
    CASE id = 1 -> "1" [] id = 2 -> "2" [] id = 3 -> "3" [] id = 4 -> "4"
      [] OTHER -> "5"

RECURSIVE GCD(_, _)
GCD(a, b) == IF b = 0 THEN a ELSE GCD(b, a % b)

\* the quotient n / d of a true division, as a fraction in lowest terms
Rat(n, d) ==
    LET g == GCD(Abs(n), d)
    IN  IF n = 0 THEN [num |-> 0, den |-> 1]
        ELSE [num |-> n \div g, den |-> d \div g]

Whole(n) == Rat(n, 1)

RECURSIVE SumSeq(_)
SumSeq(q) == IF q = <<>> THEN 0 ELSE Head(q) + SumSeq(Tail(q))

Reverse(q) == [i \in 1..Len(q) |-> q[Len(q) + 1 - i]]

Tranche(tid, symbol, ps, qty, price, tp, sl, pnl) ==
    [tranche_id |-> tid, symbol |-> symbol, position_side |-> ps,
     total_quantity |-> qty, avg_entry_price |-> price,
     tp_order_id |-> tp, sl_order_id |-> sl, unrealized_pnl |-> pnl]

Relationship(symbol, ps, tid, tp, sl, at) ==
    [symbol |-> symbol, position_side |-> ps, tranche_id |-> tid,
     tp_order_id |-> tp, sl_order_id |-> sl, created_at |-> at]

NoRelationship == Relationship("", "NULL", 0, 0, 0, 0)

OpenOrder(id, type) ==
    [orderId |-> id, type |-> type, status |-> "NEW", origQty |-> 1,
     executedQty |-> 0, price |-> 100, side |-> "SELL"]

CachedOrder(id, symbol) ==
    [order_id |-> id, symbol |-> symbol, side |-> "SELL", quantity |-> 1,
     price |-> 100, position_side |-> "LONG", status |-> "FILLED"]

NoSummary ==
    [total_quantity |-> Whole(0), avg_entry_price |-> Whole(0),
     unrealized_pnl |-> Whole(0), total_margin |-> Whole(0),
     num_tranches |-> 0]

NoView == [order_id |-> "", status |-> "", quantity |-> 0, price |-> 0,
           side |-> "", type |-> "", executed_qty |-> 0]

\* order_statuses = {}
EmptyMap == [k \in {} |-> NoView]

\* next((p for p in positions if p['symbol'] == symbol and
\*       float(p.get('positionAmt', 0)) != 0), None)
ExchangePosition(plist, symbol) ==
    LET hits == { i \in 1..Len(plist) :
                    plist[i].symbol = symbol /\ plist[i].positionAmt # 0 }
    IN  IF hits = {} THEN NoPosition
        ELSE plist[CHOOSE i \in hits : \A j \in hits : i =< j]

\* the tranche rows of (symbol, side), by ascending tranche_id
ListTranches(rows, symbol, side) ==
    LET Wanted(r) == r.symbol = symbol /\ r.position_side = side
    IN  SelectSeq(rows, Wanted)

\* the most recent relationship of the tranche that names a TP or an SL order
LatestRelationship(rels, symbol, side, tid) ==
    LET hits == { i \in 1..Len(rels) :
                    /\ rels[i].symbol = symbol
                    /\ rels[i].position_side = side
                    /\ rels[i].tranche_id = tid
                    /\ (rels[i].tp_order_id # 0 \/ rels[i].sl_order_id # 0) }
    IN  IF hits = {} THEN NoRelationship
        ELSE rels[CHOOSE i \in hits :
                    \A j \in hits : rels[j].created_at =< rels[i].created_at]

\* the tranche takes the relationship's ids where it has none of its own
WithRelationship(t, rel) ==
    [t EXCEPT
       !.tp_order_id = IF t.tp_order_id = 0 /\ rel.tp_order_id # 0
                       THEN rel.tp_order_id ELSE @,
       !.sl_order_id = IF t.sl_order_id = 0 /\ rel.sl_order_id # 0
                       THEN rel.sl_order_id ELSE @]

\* (mutant) the stored PnL shown whatever the exchange says
ShownPnlStored(t, live) == t

\* tranche['unrealized_pnl'] = 0.0 when the exchange position is there
ShownPnl(t, live) ==
    IF live # NoPosition THEN [t EXCEPT !.unrealized_pnl = 0] ELSE t

\* the tranches of the response
LoadedTranches(table, rels, symbol, side, live) ==
    IF ~table.exists THEN <<>>
    ELSE LET rows == ListTranches(table.rows, symbol, side)
         IN  [i \in 1..Len(rows) |->
                ShownPnl(WithRelationship(rows[i],
                            LatestRelationship(rels, symbol, side,
                                               rows[i].tranche_id)),
                         live)]

\* the CASE expression of the trades query
TradeCategory(t) ==
    IF t.parent_order_id = "NULL" THEN "ENTRY"
    ELSE IF t.order_type = "TAKE_PROFIT_MARKET" THEN "TAKE_PROFIT"
    ELSE IF t.order_type = "STOP_MARKET" THEN "STOP_LOSS"
    ELSE t.order_type

TradesLimit == 100

\* the trades of (symbol, side), newest first, at most TradesLimit of them
ListTrades(table, symbol, side) ==
    LET Wanted(t) == /\ t.symbol = symbol
                     /\ \/ t.side = "BUY" /\ side = "LONG"
                        \/ t.side = "SELL" /\ side = "SHORT"
        found == Reverse(SelectSeq(table, Wanted))
        kept == SubSeq(found, 1, IF Len(found) < TradesLimit
                                 THEN Len(found) ELSE TradesLimit)
    IN  [i \in 1..Len(kept) |->
           [trade |-> kept[i], trade_category |-> TradeCategory(kept[i])]]

\* the relationships of the symbol whose position_side is the side, newest
\* first (rows with a NULL position_side are fetched and then filtered out)
ListRelationships(rels, symbol, side) ==
    LET Fetched(r) == r.symbol = symbol
                      /\ (r.position_side = side \/ r.position_side = "NULL")
        Kept(r) == r.position_side = side
    IN  SelectSeq(Reverse(SelectSeq(rels, Fetched)), Kept)

\* (mutant) the TP ids of the tranches alone
TpOrderIdsOfTranches(ts, rels) ==
    { Str(ts[i].tp_order_id) : i \in { j \in 1..Len(ts) : ts[j].tp_order_id # 0 } }

\* tp_order_ids: the TP ids of the tranches and of every relationship kept
TpOrderIds(ts, rels) ==
    { Str(ts[i].tp_order_id) : i \in { j \in 1..Len(ts) : ts[j].tp_order_id # 0 } }
    \cup
    { Str(rels[i].tp_order_id) :
        i \in { j \in 1..Len(rels) : rels[j].tp_order_id # 0 } }

\* sl_order_ids: the SL ids of the tranches and of every relationship kept
SlOrderIds(ts, rels) ==
    { Str(ts[i].sl_order_id) : i \in { j \in 1..Len(ts) : ts[j].sl_order_id # 0 } }
    \cup
    { Str(rels[i].sl_order_id) :
        i \in { j \in 1..Len(rels) : rels[j].sl_order_id # 0 } }

\* 'TAKE_PROFIT' in order_type, 'STOP' in order_type
ContainsTakeProfit(type) == type \in {"TAKE_PROFIT", "TAKE_PROFIT_MARKET"}
ContainsStop(type) == type \in {"STOP", "STOP_MARKET", "TRAILING_STOP_MARKET"}

\* whether a live open order enters order_statuses
Included(o, tp, sl) ==
    \/ ContainsTakeProfit(o.type)
    \/ ContainsStop(o.type)
    \/ Str(o.orderId) \in tp \cup sl

\* (mutant) a TP id labelled TP_LIMIT whatever the order's own type
EffectiveTypeByIdAlone(o, tp, sl) ==
    IF Str(o.orderId) \in tp THEN "TP_LIMIT"
    ELSE IF Str(o.orderId) \in sl /\ ContainsStop(o.type) THEN "SL_STOP"
    ELSE o.type

\* effective_type
EffectiveType(o, tp, sl) ==
    IF Str(o.orderId) \in tp /\ o.type = "LIMIT" THEN "TP_LIMIT"
    ELSE IF Str(o.orderId) \in sl /\ ContainsStop(o.type) THEN "SL_STOP"
    ELSE o.type

LiveView(o, tp, sl) ==
    [order_id |-> Str(o.orderId), status |-> o.status, quantity |-> o.origQty,
     price |-> o.price, side |-> o.side, type |-> EffectiveType(o, tp, sl),
     executed_qty |-> o.executedQty]

\* the entries written by the loop over the open orders (a later order with
\* the same id overwrites an earlier one)
LiveStatuses(orders, tp, sl) ==
    LET inc == { i \in 1..Len(orders) : Included(orders[i], tp, sl) }
        last(k) == CHOOSE i \in inc :
                      /\ Str(orders[i].orderId) = k
                      /\ \A j \in inc : Str(orders[j].orderId) = k => j =< i
    IN  [k \in { Str(orders[i].orderId) : i \in inc } |->
           LiveView(orders[last(k)], tp, sl)]

\* order_type of an entry resolved from the cache
CachedType(id, tp, sl) ==
    IF id \in tp THEN "TP_ORDER" ELSE IF id \in sl THEN "SL_ORDER" ELSE "TP/SL"

CachedView(row, tp, sl) ==
    [order_id |-> Str(row.order_id), status |-> row.status,
     quantity |-> row.quantity, price |-> row.price, side |-> row.side,
     type |-> CachedType(Str(row.order_id), tp, sl), executed_qty |-> 0]

\* the entries added from the order_status table: rows of the symbol whose id
\* is a TP/SL id and is not in the map yet
WithCachedStatuses(map, cache, symbol, tp, sl) ==
    LET rows == { i \in 1..Len(cache) :
                    /\ cache[i].symbol = symbol
                    /\ Str(cache[i].order_id) \in tp \cup sl
                    /\ Str(cache[i].order_id) \notin DOMAIN map }
        first(k) == CHOOSE i \in rows :
                       /\ Str(cache[i].order_id) = k
                       /\ \A j \in rows : Str(cache[j].order_id) = k => i =< j
    IN  [k \in DOMAIN map \cup { Str(cache[i].order_id) : i \in rows } |->
           IF k \in DOMAIN map THEN map[k]
           ELSE CachedView(cache[first(k)], tp, sl)]

\* the block under "if API_KEY and API_SECRET": without credentials nothing
\* is looked up; a failing open-orders call leaves the live part empty; a
\* failing cache query leaves the map as the live part built it
OrderStatuses(creds, live_ok, cache_ok, orders, cache, symbol, tp, sl) ==
    IF ~creds THEN EmptyMap
    ELSE LET live == IF live_ok THEN LiveStatuses(orders, tp, sl) ELSE EmptyMap
         IN  IF cache_ok /\ tp \cup sl # {}
             THEN WithCachedStatuses(live, cache, symbol, tp, sl)
             ELSE live

\* leverage of the fallback branch: 10 unless the symbol's settings give one
Leverage(cfg) ==
    IF cfg.available /\ cfg.configured THEN cfg.leverage ELSE 10

\* (mutant) the PnL of a long position computed for a short one too
LiveSummaryAsLong(pos, n) ==
    LET amt == pos.positionAmt
    IN  [total_quantity |-> Whole(Abs(amt)),
         avg_entry_price |-> Whole(pos.entryPrice),
         unrealized_pnl |-> Whole((pos.markPrice - pos.entryPrice) * Abs(amt)),
         total_margin |-> Whole(pos.initialMargin),
         num_tranches |-> n]

\* the summary computed from the exchange position
LiveSummary(pos, n) ==
    LET amt == pos.positionAmt
        pnl == IF amt > 0 THEN (pos.markPrice - pos.entryPrice) * amt
               ELSE IF amt < 0 THEN (pos.entryPrice - pos.markPrice) * Abs(amt)
               ELSE 0
    IN  [total_quantity |-> Whole(Abs(amt)),
         avg_entry_price |-> Whole(pos.entryPrice),
         unrealized_pnl |-> Whole(pnl),
         total_margin |-> Whole(pos.initialMargin),
         num_tranches |-> n]

\* what a division by zero leaves where a number should be
ZeroDivision == [num |-> 0, den |-> 0]

\* (mutant) the two divisions made without looking at the divisor
TrancheSummaryUnguarded(ts, leverage) ==
    LET qty == SumSeq([i \in 1..Len(ts) |-> ts[i].total_quantity])
        cost == SumSeq([i \in 1..Len(ts) |->
                          ts[i].avg_entry_price * ts[i].total_quantity])
        avg == IF qty # 0 THEN Rat(cost, qty) ELSE ZeroDivision
    IN  [total_quantity |-> Whole(qty),
         avg_entry_price |-> avg,
         unrealized_pnl |->
             Whole(SumSeq([i \in 1..Len(ts) |-> ts[i].unrealized_pnl])),
         total_margin |-> IF leverage # 0 /\ avg.den # 0
                          THEN Rat(qty * avg.num, avg.den * leverage)
                          ELSE ZeroDivision,
         num_tranches |-> Len(ts)]

\* (mutant) the entry prices averaged without their quantities
TrancheSummaryUnweighted(ts, leverage) ==
    LET qty == SumSeq([i \in 1..Len(ts) |-> ts[i].total_quantity])
        avg == IF qty > 0
               THEN Rat(SumSeq([i \in 1..Len(ts) |-> ts[i].avg_entry_price]),
                        Len(ts))
               ELSE Whole(0)
    IN  [total_quantity |-> Whole(qty),
         avg_entry_price |-> avg,
         unrealized_pnl |->
             Whole(SumSeq([i \in 1..Len(ts) |-> ts[i].unrealized_pnl])),
         total_margin |-> IF leverage > 0
                          THEN Rat(qty * avg.num, avg.den * leverage)
                          ELSE Whole(0),
         num_tranches |-> Len(ts)]

\* the summary computed from the tranches
TrancheSummary(ts, leverage) ==
    LET qty == SumSeq([i \in 1..Len(ts) |-> ts[i].total_quantity])
        cost == SumSeq([i \in 1..Len(ts) |->
                          ts[i].avg_entry_price * ts[i].total_quantity])
        avg == IF qty > 0 THEN Rat(cost, qty) ELSE Whole(0)
    IN  [total_quantity |-> Whole(qty),
         avg_entry_price |-> avg,
         unrealized_pnl |->
             Whole(SumSeq([i \in 1..Len(ts) |-> ts[i].unrealized_pnl])),
         total_margin |-> IF leverage > 0
                          THEN Rat(qty * avg.num, avg.den * leverage)
                          ELSE Whole(0),
         num_tranches |-> Len(ts)]

\* (mutant) the live quantity and PnL paired with the tranches' entry price
SummarizeMixed(live, ts, cfg) ==
    IF live # NoPosition
    THEN [LiveSummary(live, Len(ts)) EXCEPT
            !.avg_entry_price = TrancheSummary(ts, Leverage(cfg)).avg_entry_price]
    ELSE IF ts # <<>> THEN TrancheSummary(ts, Leverage(cfg))
    ELSE NoSummary

\* the if / elif / else that picks the summary's source
Summarize(live, ts, cfg) ==
    IF live # NoPosition THEN LiveSummary(live, Len(ts))
    ELSE IF ts # <<>> THEN TrancheSummary(ts, Leverage(cfg))
    ELSE NoSummary

(***************************************************************************)
(* close_position                                                          *)
(***************************************************************************)
InitClose ==
    /\ positions \in SeqsUpTo(ClosePositionRecs, MaxPositions)
    /\ config \in { Config(TRUE, TRUE, FALSE, 0), Config(TRUE, FALSE, FALSE, 0),
                    Config(FALSE, FALSE, FALSE, 0) }
    /\ trades = <<>>
    /\ exchangeOrders = <<>>
    /\ pc = [p \in Procs |-> "IDLE"]
    /\ args = [p \in Procs |-> NoArgs]
    /\ target = [p \in Procs |-> NoPosition]
    /\ order_data = [p \in Procs |-> NoOrder]
    /\ order_result = [p \in Procs |-> NoOrderResult]
    /\ calls = [p \in Procs |-> <<>>]
    /\ replies = [p \in Procs |-> <<>>]
    /\ result = [p \in Procs |-> NoResult]
    /\ invocation = [p \in Procs |-> NoInvocation]
    /\ credentials = TRUE
    /\ position_tranches = [exists |-> TRUE, rows |-> <<>>]
    /\ order_relationships_table = <<>>
    /\ order_status = <<>>
    /\ open_orders = <<>>
    /\ rpc = "IDLE"
    /\ rargs = NoArgs
    /\ exchange_position = NoPosition
    /\ tranches = <<>>
    /\ trade_rows = <<>>
    /\ order_relationships = <<>>
    /\ tp_order_ids = {}
    /\ sl_order_ids = {}
    /\ order_statuses = EmptyMap
    /\ summary = NoSummary
    /\ failures = {}

\* the request arrives
Begin(p) ==
    /\ pc[p] = "IDLE"
    /\ \E symbol \in ReqSymbols, side \in ReqSides :
          args' = [args EXCEPT ![p] = [symbol |-> symbol, side |-> side]]
    /\ pc' = [pc EXCEPT ![p] = "LOCATING"]
    /\ invocation' = [invocation EXCEPT ![p] = [n |-> 1, fetched |-> <<>>]]
    /\ UNCHANGED <<positions, config, trades, exchangeOrders, target,
                   order_data, order_result, calls, replies, result>>
    /\ UNCHANGED <<ledgerVars, readVars>>

\* the position fetch and the scan for target_position
Locate(p) ==
    /\ pc[p] = "LOCATING"
    /\ calls' = [calls EXCEPT ![p] = Append(@, "GET positionRisk")]
    /\ \/ \* the request raises
          /\ replies' = [replies EXCEPT ![p] = Append(@, Raised)]
          /\ result' = [result EXCEPT ![p] = InternalError]
          /\ pc' = [pc EXCEPT ![p] = "FAILED"]
          /\ UNCHANGED <<target, invocation>>
       \/ \* the exchange answers with a status other than 200
          /\ \E s \in FailStatuses :
                /\ replies' = [replies EXCEPT ![p] = Append(@, Reply(s, ""))]
                /\ result' = [result EXCEPT ![p] = FetchFailure(s)]
          /\ pc' = [pc EXCEPT ![p] = "FAILED"]
          /\ UNCHANGED <<target, invocation>>
       \/ \* the exchange answers 200 with the position list
          /\ replies' = [replies EXCEPT ![p] = Append(@, Reply(200, ""))]
          /\ invocation' = [invocation EXCEPT ![p].fetched = positions]
          /\ LET t == FindTarget(positions, args[p].symbol, args[p].side)
             IN  IF t = NoPosition
                 THEN /\ result' = [result EXCEPT ![p] =
                            PositionNotFound(args[p].symbol, args[p].side)]
                      /\ pc' = [pc EXCEPT ![p] = "FAILED"]
                      /\ UNCHANGED target
                 ELSE /\ target' = [target EXCEPT ![p] = t]
                      /\ pc' = [pc EXCEPT ![p] = "VALIDATING"]
                      /\ UNCHANGED result
    /\ UNCHANGED <<positions, config, trades, exchangeOrders, args,
                   order_data, order_result>>
    /\ UNCHANGED <<ledgerVars, readVars>>

\* the size check, the order's construction and the simulation switch
Validate(p) ==
    /\ pc[p] = "VALIDATING"
    /\ IF target[p].positionAmt = 0
       THEN /\ result' = [result EXCEPT ![p] =
                  NoPositionSize(args[p].symbol, args[p].side)]
            /\ pc' = [pc EXCEPT ![p] = "FAILED"]
            /\ UNCHANGED order_data
       ELSE /\ order_data' = [order_data EXCEPT ![p] =
                  BuildOrder(args[p].symbol, target[p])]
            /\ IF SimulateOnly(config)
               THEN /\ result' = [result EXCEPT ![p] = Simulated]
                    /\ pc' = [pc EXCEPT ![p] = "DONE"]
               ELSE /\ pc' = [pc EXCEPT ![p] = "SUBMITTING"]
                    /\ UNCHANGED result
    /\ UNCHANGED <<positions, config, trades, exchangeOrders, args, target,
                   order_result, calls, replies, invocation>>
    /\ UNCHANGED <<ledgerVars, readVars>>

\* the market order's submission, as the handler sees it
Post(p) ==
    /\ pc[p] = "SUBMITTING"
    /\ calls' = [calls EXCEPT ![p] = Append(@, "POST order")]
    /\ \/ \* the request raises; the order may or may not have arrived
          /\ \E arrived \in BOOLEAN :
                exchangeOrders' = IF arrived
                                  THEN Append(exchangeOrders, order_data[p])
                                  ELSE exchangeOrders
          /\ replies' = [replies EXCEPT ![p] = Append(@, Raised)]
          /\ result' = [result EXCEPT ![p] = InternalError]
          /\ pc' = [pc EXCEPT ![p] = "FAILED"]
          /\ UNCHANGED order_result
       \/ \* the exchange rejects the order
          /\ \E s \in FailStatuses, body \in Bodies :
                /\ replies' = [replies EXCEPT ![p] = Append(@, Reply(s, body))]
                /\ result' = [result EXCEPT ![p] = OrderSubmissionFailed(s, body)]
          /\ exchangeOrders' = Append(exchangeOrders, order_data[p])
          /\ pc' = [pc EXCEPT ![p] = "FAILED"]
          /\ UNCHANGED order_result
       \/ \* the exchange accepts the order (a reply without orderId: 'unknown')
          /\ \E oid \in {"7001", "unknown"} :
                order_result' = [order_result EXCEPT ![p] =
                    [orderId |-> oid, avgPrice |-> 100]]
          /\ replies' = [replies EXCEPT ![p] = Append(@, Reply(200, ""))]
          /\ exchangeOrders' = Append(exchangeOrders, order_data[p])
          /\ pc' = [pc EXCEPT ![p] = "AUDIT"]
          /\ UNCHANGED result
    /\ UNCHANGED <<config, trades, args, target, order_data, invocation>>
    /\ UNCHANGED <<ledgerVars, readVars>>

\* the submission of a request that is served alone: the list the exchange
\* answered the fetch with is not asked for again
Submit(p) ==
    /\ Post(p)
    /\ UNCHANGED positions

\* the audit row and the answer
Audit(p) ==
    /\ pc[p] = "AUDIT"
    /\ calls' = [calls EXCEPT ![p] = Append(@, "insert_trade")]
    /\ LET quantity == Abs(target[p].positionAmt)
           row == TradeRow(args[p].symbol, order_result[p].orderId,
                           order_data[p].side, quantity, order_result[p])
       IN  \E written \in BOOLEAN :
              /\ trades' = IF written THEN InsertTrade(trades, row) ELSE trades
              /\ result' = [result EXCEPT ![p] =
                    AfterAudit(written, Succeeded(order_result[p].orderId,
                                                  order_data[p].side, quantity))]
    /\ pc' = [pc EXCEPT ![p] = "DONE"]
    /\ UNCHANGED <<positions, config, exchangeOrders, args, target,
                   order_data, order_result, replies, invocation>>
    /\ UNCHANGED <<ledgerVars, readVars>>

Next ==
    \E p \in {"r1"} :
        \/ Begin(p)
        \/ Locate(p)
        \/ Validate(p)
        \/ Submit(p)
        \/ Audit(p)

Spec == InitClose /\ [][Next]_vars

(***************************************************************************)
(* close_position invoked again by a caller that retries, while the        *)
(* exchange's position moves between and during the invocations            *)
(***************************************************************************)
\* the lists the exchange answers a retried request with: at most one entry
\* of the symbol, one-way or hedged
RetryPositionLists ==
    SeqsUpTo({ r \in { Position(s, a, ps, 100, 100, 10) :
                         s \in ReqSymbols,
                         a \in (-MaxBookAmt)..MaxBookAmt,
                         ps \in {"BOTH", "LONG", "SHORT"} } :
                 /\ r.positionSide = "LONG" => r.positionAmt >= 0
                 /\ r.positionSide = "SHORT" => r.positionAmt =< 0 }, 1)

\* the account's position mode, which stays as it is while positions are open
HedgeMode(plist) == \E i \in 1..Len(plist) : plist[i].positionSide # "BOTH"

InitRetry ==
    /\ InitClose
    /\ positions \in RetryPositionLists
    /\ config.available

\* (mutant) a retry that resubmits the order of the invocation before
EntryWithCachedOrder(order) == [pc |-> "SUBMITTING", order_data |-> order]

\* a call of the route starts at the position fetch, and order_data is a
\* local of the call: whatever the invocation before built is gone
Entry(order) == [pc |-> "LOCATING", order_data |-> NoOrder]

\* the caller invokes the route again for the same (symbol, side); the
\* locals of the invocation before are gone
Reinvoke(p) ==
    /\ pc[p] \in {"DONE", "FAILED"}
    /\ invocation[p].n < MaxInvocations
    /\ invocation' = [invocation EXCEPT ![p] =
                          [n |-> @.n + 1, fetched |-> <<>>]]
    /\ pc' = [pc EXCEPT ![p] = Entry(order_data[p]).pc]
    /\ target' = [target EXCEPT ![p] = NoPosition]
    /\ order_data' = [order_data EXCEPT ![p] = Entry(@).order_data]
    /\ order_result' = [order_result EXCEPT ![p] = NoOrderResult]
    /\ calls' = [calls EXCEPT ![p] = <<>>]
    /\ replies' = [replies EXCEPT ![p] = <<>>]
    /\ result' = [result EXCEPT ![p] = NoResult]
    /\ UNCHANGED <<positions, config, trades, exchangeOrders, args>>
    /\ UNCHANGED <<ledgerVars, readVars>>

\* the position on the exchange changes (fills, liquidations, other traders
\* of the account).  The handler sees the exchange's list only in the answer
\* to its fetch, so the changes are taken right before a fetch.
Move ==
    /\ \E p \in Procs : pc[p] = "LOCATING"
    /\ positions' \in { l \in RetryPositionLists :
                          l # positions /\ HedgeMode(l) = HedgeMode(positions) }
    /\ UNCHANGED <<config, trades, exchangeOrders, pc, args, target,
                   order_data, order_result, calls, replies, result,
                   invocation>>
    /\ UNCHANGED <<ledgerVars, readVars>>

(***************************************************************************)
(* Two requests served at once (no lock in close_position), against an     *)
(* exchange that keeps the positions and fills the orders it accepts       *)
(***************************************************************************)
\* float(quantity) on the exchange's side: the inverse of str(quantity)
ParseQty(q) ==
    CASE q = "0.0" -> 0 [] q = "1.0" -> 1 [] q = "2.0" -> 2
      [] q = "3.0" -> 3 [] OTHER -> 4

\* the amount of an entry after an order for it: a closing order (reduceOnly
\* in one-way mode, SELL of LONG or BUY of SHORT in hedge mode) takes off at
\* most what is there; any other order adds its signed quantity
FilledAmt(amt, order) ==
    LET qty == ParseQty(order.quantity)
        signed == IF order.side = "BUY" THEN qty ELSE -qty
        closing == \/ order.reduceOnly = "true"
                   \/ order.positionSide = "LONG" /\ order.side = "SELL"
                   \/ order.positionSide = "SHORT" /\ order.side = "BUY"
        reduces == (amt > 0 /\ signed < 0) \/ (amt < 0 /\ signed > 0)
    IN  IF ~closing THEN amt + signed
        ELSE IF ~reduces THEN amt
        ELSE IF qty >= Abs(amt) THEN 0
        ELSE amt + signed

\* the exchange's list after it has filled the order
Fill(plist, order) ==
    [i \in 1..Len(plist) |->
        IF /\ plist[i].symbol = order.symbol
           /\ PositionSideOf(plist[i]) = order.positionSide
        THEN [plist[i] EXCEPT !.positionAmt = FilledAmt(@, order)]
        ELSE plist[i]]

\* the submission against the exchange's own book: an accepted order is
\* filled, a rejected one is not, and one whose request raised may be either
SubmitToExchange(p) ==
    /\ Post(p)
    /\ LET reached == exchangeOrders' # exchangeOrders
           accepted == pc'[p] = "AUDIT"
           filled == Fill(positions, order_data[p])
       IN  positions' \in IF accepted THEN {filled}
                          ELSE IF reached /\ result'[p] = InternalError
                          THEN {positions, filled}
                          ELSE {positions}

\* a book of the symbol: one entry in one-way mode, a LONG and a SHORT entry
\* in hedge mode
RacePositionLists ==
    { <<Position(s, a, "BOTH", 100, 100, 10)>> :
        s \in ReqSymbols, a \in (-MaxBookAmt)..MaxBookAmt }
    \cup { <<Position(s, a, "LONG", 100, 100, 10),
              Position(s, b, "SHORT", 100, 100, 10)>> :
              s \in ReqSymbols, a \in 0..MaxBookAmt, b \in (-MaxBookAmt)..0 }

InitRace ==
    /\ InitClose
    /\ positions \in RacePositionLists
    /\ config.available /\ ~config.SIMULATE_ONLY

NextRace ==
    \E p \in Procs :
        \/ Begin(p)
        \/ Locate(p)
        \/ Validate(p)
        \/ SubmitToExchange(p)
        \/ Audit(p)

SpecRace == InitRace /\ [][NextRace]_vars

\* the steps of the handler between its entry and its return
Advance(p) == Locate(p) \/ Validate(p) \/ Submit(p) \/ Audit(p)

NextRetry ==
    \/ \E p \in {"r1"} :
          \/ Begin(p)
          \/ Locate(p)
          \/ Validate(p)
          \/ Submit(p)
          \/ Audit(p)
          \/ Reinvoke(p)
    \/ Move

\* the handler runs to its return: every call it makes answers or raises
SpecRetry == InitRetry /\ [][NextRetry]_vars /\ WF_vars(Advance("r1"))

(***************************************************************************)
(* get_position_details                                                    *)
(***************************************************************************)
Prices == {100, 200}
EntryPrices == {100, 120, 200}
Margins == {0, 30}
\* the PnL stored with a tranche entered at a price
StoredPnl(price) == IF price = 100 THEN 10 ELSE -5

\* tables whose rows are numbered 1, 2, ... in the order they were inserted
TrancheTables(attrs, n) ==
    UNION { { [i \in 1..k |-> [f[i] EXCEPT !.tranche_id = i]] :
                f \in [1..k -> attrs] } : k \in 0..n }

RelationshipTables(attrs, n) ==
    UNION { { [i \in 1..k |-> [f[i] EXCEPT !.created_at = i]] :
                f \in [1..k -> attrs] } : k \in 0..n }

Table(rows) == [exists |-> TRUE, rows |-> rows]
MissingTable == [exists |-> FALSE, rows |-> <<>>]

\* exchange lists for the read: nothing, one entry of the symbol, or such an
\* entry behind one the scan skips (another symbol, or a flat entry)
LivePositionRecs ==
    { Position("BTCUSDT", a, "BOTH", e, m, g) :
        a \in Amounts, e \in Prices, m \in Prices, g \in Margins }

SkippedPositionRecs ==
    { Position("ETHUSDT", 1, "BOTH", 100, 200, 30),
      Position("BTCUSDT", 0, "BOTH", 100, 200, 30) }

\* a position of 1.5 entered at 30000 and marked at 31000, the amount counted
\* in steps of 0.5
SamplePosition == Position("BTCUSDT", 3, "BOTH", 30000, 31000, 4500)

ReadPositionLists ==
    {<<>>, <<SamplePosition>>}
           \cup { <<r>> : r \in LivePositionRecs }
           \cup { <<o, r>> : o \in SkippedPositionRecs, r \in LivePositionRecs }

\* the tranches the arithmetic is exercised on
AggTrancheAttrs ==
    { Tranche(0, "BTCUSDT", "LONG", q, pr, 0, 0, StoredPnl(pr)) :
        q \in 0..MaxQty, pr \in EntryPrices }
    \cup { Tranche(0, "BTCUSDT", "SHORT", 1, 100, 0, 0, 10),
           Tranche(0, "ETHUSDT", "LONG", 1, 100, 0, 0, 10) }

SampleTranches ==
    << Tranche(1, "BTCUSDT", "LONG", 1, 100, 1, 0, 10),
       Tranche(2, "BTCUSDT", "LONG", 2, 200, 0, 2, -5),
       Tranche(3, "BTCUSDT", "SHORT", 1, 200, 0, 0, 10) >>

\* the tranches and relationships the order ids are exercised on
IdTrancheAttrs ==
    { Tranche(0, "BTCUSDT", "LONG", 1, 100, tp, sl, 10) :
        tp \in {0, 1}, sl \in {0, 2} }

\* the same, and a tranche whose TP and SL are one order
OrderTrancheAttrs ==
    IdTrancheAttrs \cup { Tranche(0, "BTCUSDT", "LONG", 1, 100, 2, 2, 10) }

IdRelationshipAttrs ==
    { Relationship("BTCUSDT", "LONG", 1, tp, sl, 0) :
        tp \in 0..MaxOrderId, sl \in 0..MaxOrderId }
    \cup { Relationship("BTCUSDT", "NULL", 1, 1, 2, 0),
           Relationship("BTCUSDT", "SHORT", 1, 2, 1, 0),
           Relationship("BTCUSDT", "LONG", 0, 1, 2, 0) }

OrderTypes == {"LIMIT", "MARKET", "STOP_MARKET", "TAKE_PROFIT_MARKET"}

\* open orders: ids of the ledger and one id the ledger does not know
OpenOrderRecs ==
    { OpenOrder(id, type) : id \in 1..(MaxOrderId + 1), type \in OrderTypes }

OpenOrderLists ==
    {<<>>} \cup { <<o>> : o \in OpenOrderRecs }
           \cup { q \in { <<o1, o2>> : o1 \in OpenOrderRecs, o2 \in OpenOrderRecs } :
                    q[1].orderId < q[2].orderId }

\* the cache: at most one row per order id, and a row of another symbol
CacheTables ==
    { [i \in 1..Cardinality(ids) |->
         CachedOrder(CHOOSE id \in ids :
                        Cardinality({ x \in ids : x < id }) = i - 1,
                     "BTCUSDT")] : ids \in SUBSET OrderIds }
    \cup { << CachedOrder(1, "ETHUSDT") >> }

SampleTrades ==
    << [symbol |-> "BTCUSDT", order_id |-> "11", side |-> "BUY", qty |-> 1,
        price |-> 100, status |-> "SUCCESS", order_type |-> "LIMIT",
        parent_order_id |-> "NULL", filled_qty |-> 1, avg_price |-> 100],
       [symbol |-> "BTCUSDT", order_id |-> "12", side |-> "BUY", qty |-> 1,
        price |-> 90, status |-> "NEW", order_type |-> "STOP_MARKET",
        parent_order_id |-> "11", filled_qty |-> 0, avg_price |-> 0],
       [symbol |-> "BTCUSDT", order_id |-> "13", side |-> "SELL", qty |-> 1,
        price |-> 100, status |-> "SUCCESS", order_type |-> "MARKET",
        parent_order_id |-> "NULL", filled_qty |-> 1, avg_price |-> 100] >>

LeverageConfigs ==
    { Config(FALSE, FALSE, FALSE, 0), Config(TRUE, FALSE, FALSE, 0),
      Config(TRUE, FALSE, TRUE, 0), Config(TRUE, FALSE, TRUE, 5) }

\* no close request is being served
CloseIdle ==
    /\ exchangeOrders = <<>>
    /\ pc = [p \in Procs |-> "IDLE"]
    /\ args = [p \in Procs |-> NoArgs]
    /\ target = [p \in Procs |-> NoPosition]
    /\ order_data = [p \in Procs |-> NoOrder]
    /\ order_result = [p \in Procs |-> NoOrderResult]
    /\ calls = [p \in Procs |-> <<>>]
    /\ replies = [p \in Procs |-> <<>>]
    /\ result = [p \in Procs |-> NoResult]
    /\ invocation = [p \in Procs |-> NoInvocation]

\* no read is being served
ReadIdle ==
    /\ rpc = "IDLE"
    /\ rargs = NoArgs
    /\ exchange_position = NoPosition
    /\ tranches = <<>>
    /\ trade_rows = <<>>
    /\ order_relationships = <<>>
    /\ tp_order_ids = {}
    /\ sl_order_ids = {}
    /\ order_statuses = EmptyMap
    /\ summary = NoSummary
    /\ failures = {}

\* the exchange position varies, the ledger is one of a few
InitLive ==
    /\ positions \in ReadPositionLists
    /\ position_tranches \in {MissingTable, Table(<<>>), Table(SampleTranches)}
    /\ order_relationships_table = <<>>
    /\ order_status = <<>>
    /\ open_orders = <<>>
    /\ credentials = TRUE
    /\ config = Config(TRUE, FALSE, FALSE, 0)
    /\ trades = SampleTrades

\* the tranches and the leverage vary, the exchange has no position of the symbol
InitLedger ==
    /\ positions = <<Position("ETHUSDT", 1, "BOTH", 100, 200, 30)>>
    /\ position_tranches \in
          { Table(rows) : rows \in TrancheTables(AggTrancheAttrs, MaxTranches) }
    /\ order_relationships_table = <<>>
    /\ order_status = <<>>
    /\ open_orders = <<>>
    /\ credentials = TRUE
    /\ config \in LeverageConfigs
    /\ trades = <<>>

\* the ids of the tranche and of its relationship rows vary
InitIds ==
    /\ positions = <<>>
    /\ position_tranches \in
          { Table(rows) : rows \in TrancheTables(IdTrancheAttrs, 1) }
    /\ order_relationships_table \in
          RelationshipTables(IdRelationshipAttrs, MaxRels)
    /\ order_status = << CachedOrder(1, "BTCUSDT") >>
    /\ open_orders = << OpenOrder(2, "LIMIT") >>
    /\ credentials = TRUE
    /\ config = Config(TRUE, FALSE, FALSE, 0)
    /\ trades = <<>>

\* the open orders, the cache and the credentials vary
InitOrders ==
    /\ positions = <<>>
    /\ position_tranches \in
          { Table(rows) : rows \in TrancheTables(OrderTrancheAttrs, 1) }
    /\ order_relationships_table = <<>>
    /\ order_status \in CacheTables
    /\ open_orders \in OpenOrderLists
    /\ credentials \in BOOLEAN
    /\ config = Config(TRUE, FALSE, FALSE, 0)
    /\ trades = <<>>

InitRead ==
    /\ CloseIdle
    /\ ReadIdle
    /\ InitLive \/ InitLedger \/ InitIds \/ InitOrders

\* the request arrives
ReadBegin ==
    /\ rpc = "IDLE"
    /\ \E symbol \in ReqSymbols, side \in {"LONG", "SHORT"} :
          rargs' = [symbol |-> symbol, side |-> side]
    /\ rpc' = "POSITION"
    /\ UNCHANGED <<closeVars, ledgerVars, exchange_position, tranches,
                   trade_rows, order_relationships, tp_order_ids,
                   sl_order_ids, order_statuses, summary, failures>>

\* the position fetch: an exception or a status other than 200 is swallowed
FetchExchangePosition ==
    /\ rpc = "POSITION"
    /\ \E answered \in BOOLEAN :
          exchange_position' = IF answered
                               THEN ExchangePosition(positions, rargs.symbol)
                               ELSE NoPosition
    /\ rpc' = "TRANCHES"
    /\ UNCHANGED <<closeVars, ledgerVars, rargs, tranches, trade_rows,
                   order_relationships, tp_order_ids, sl_order_ids,
                   order_statuses, summary, failures>>

\* the table check, the tranche query and the query per tranche for its
\* latest relationship; a failing query raises out of the handler
LoadTranches ==
    /\ rpc = "TRANCHES"
    /\ \/ /\ rpc' = "RAISED"
          /\ UNCHANGED tranches
       \/ /\ tranches' = LoadedTranches(position_tranches,
                                        order_relationships_table,
                                        rargs.symbol, rargs.side,
                                        exchange_position)
          /\ rpc' = "TRADES"
    /\ UNCHANGED <<closeVars, ledgerVars, rargs, exchange_position, trade_rows,
                   order_relationships, tp_order_ids, sl_order_ids,
                   order_statuses, summary, failures>>

\* the trades query; a failing query raises out of the handler
LoadTrades ==
    /\ rpc = "TRADES"
    /\ \/ /\ rpc' = "RAISED"
          /\ UNCHANGED trade_rows
       \/ /\ trade_rows' = ListTrades(trades, rargs.symbol, rargs.side)
          /\ rpc' = "RELATIONSHIPS"
    /\ UNCHANGED <<closeVars, ledgerVars, rargs, exchange_position, tranches,
                   order_relationships, tp_order_ids, sl_order_ids,
                   order_statuses, summary, failures>>

\* the relationships query and the collection of the TP and SL ids; a failing
\* query raises out of the handler
LoadRelationships ==
    /\ rpc = "RELATIONSHIPS"
    /\ \/ /\ rpc' = "RAISED"
          /\ UNCHANGED <<order_relationships, tp_order_ids, sl_order_ids>>
       \/ LET rels == ListRelationships(order_relationships_table,
                                        rargs.symbol, rargs.side)
          IN  /\ order_relationships' = rels
              /\ tp_order_ids' = TpOrderIds(tranches, rels)
              /\ sl_order_ids' = SlOrderIds(tranches, rels)
              /\ rpc' = "ORDERS"
    /\ UNCHANGED <<closeVars, ledgerVars, rargs, exchange_position, tranches,
                   trade_rows, order_statuses, summary, failures>>

\* the open-orders fetch and the cache query, both inside try/except
FetchOrderStatuses ==
    /\ rpc = "ORDERS"
    /\ \E live_ok \in BOOLEAN, cache_ok \in BOOLEAN :
          \* without credentials no call is made, and without a TP/SL id
          \* the cache is not queried: neither can fail then
          /\ ~credentials => live_ok /\ cache_ok
          /\ tp_order_ids \cup sl_order_ids = {} => cache_ok
          /\ order_statuses' = OrderStatuses(credentials, live_ok, cache_ok,
                                             open_orders, order_status,
                                             rargs.symbol, tp_order_ids,
                                             sl_order_ids)
          /\ failures' = failures
                \cup (IF live_ok THEN {} ELSE {"openOrders"})
                \cup (IF cache_ok THEN {} ELSE {"order_status"})
    /\ rpc' = "AGGREGATE"
    /\ UNCHANGED <<closeVars, ledgerVars, rargs, exchange_position, tranches,
                   trade_rows, order_relationships, tp_order_ids,
                   sl_order_ids, summary>>

\* the summary and the response
Aggregate ==
    /\ rpc = "AGGREGATE"
    /\ summary' = Summarize(exchange_position, tranches, config)
    /\ rpc' = "DONE"
    /\ UNCHANGED <<closeVars, ledgerVars, rargs, exchange_position, tranches,
                   trade_rows, order_relationships, tp_order_ids,
                   sl_order_ids, order_statuses, failures>>

NextRead ==
    \/ ReadBegin
    \/ FetchExchangePosition
    \/ LoadTranches
    \/ LoadTrades
    \/ LoadRelationships
    \/ FetchOrderStatuses
    \/ Aggregate

SpecRead == InitRead /\ [][NextRead]_vars

(***************************************************************************)
(* Properties of close_position                                            *)
(***************************************************************************)
Made(p, call) == \E i \in 1..Len(calls[p]) : calls[p][i] = call
Count(p, call) == Cardinality({ i \in 1..Len(calls[p]) : calls[p][i] = call })
Terminal(p) == pc[p] \in {"DONE", "FAILED"}
SimulateFlagSet == config.available /\ config.SIMULATE_ONLY

\* an entry that the request (symbol, side) may close, in the claim's words
Closable(pos, symbol, side) ==
    /\ pos.symbol = symbol
    /\ pos.positionAmt # 0
    /\ side = "LONG" => pos.positionAmt > 0
    /\ side = "SHORT" => pos.positionAmt < 0

ClosableAt(p) ==
    { i \in 1..Len(positions) :
        Closable(positions[i], args[p].symbol, args[p].side) }

\* C1 as stated: with the simulate-only flag set, a close that answered
\* {success, simulated} has made no exchange call at all over the invocation
\* (not even the position fetch) and no ledger write.
C1_ZeroExchangeCalls ==
    \A p \in Procs :
        (SimulateFlagSet /\ pc[p] = "DONE") =>
            /\ result[p].success /\ result[p].simulated
            /\ calls[p] = <<>>
            /\ trades = <<>>

\* C1 amended: with the simulate-only flag set, close_position makes exactly
\* one exchange call, the position fetch; it never submits an order and never
\* writes a Trade row; it answers {success, simulated} when the fetch located
\* a position and fails as in live mode when it did not.
C1_SimulatedNeverSubmits ==
    \A p \in Procs :
        SimulateFlagSet =>
            /\ ~Made(p, "POST order") /\ ~Made(p, "insert_trade")
            /\ trades = <<>> /\ exchangeOrders = <<>>
            /\ pc[p] \notin {"SUBMITTING", "AUDIT"}
            /\ Terminal(p) => calls[p] = <<"GET positionRisk">>
            /\ pc[p] = "DONE" =>
                  /\ result[p].success /\ result[p].simulated
                  /\ result[p].status_code = 200
                  /\ replies[p] = <<Reply(200, "")>>
                  /\ ClosableAt(p) # {}
            /\ pc[p] = "FAILED" =>
                  /\ ~result[p].success /\ ~result[p].simulated
                  /\ replies[p][1].status # 200 \/ ClosableAt(p) = {}

C1_Witness ==
    /\ SimulateFlagSet
    /\ pc["r1"] = "DONE"
    /\ result["r1"].simulated
    /\ calls["r1"] = <<"GET positionRisk">>

\* C2: an order is submitted only for the first entry of the live list with
\* the request's symbol, a non-zero amount and the sign the side asks for (any
\* sign for BOTH); when the fetched list has no such entry the request fails
\* with 404, submits nothing and writes nothing.
C2_SubmitsOnlyForMatch ==
    \A p \in Procs :
        /\ (Made(p, "POST order") \/ pc[p] = "SUBMITTING") =>
              /\ ClosableAt(p) # {}
              /\ \E i \in ClosableAt(p) :
                    /\ \A j \in ClosableAt(p) : i =< j
                    /\ target[p] = positions[i]
        /\ ( /\ Terminal(p)
             /\ replies[p][1].status = 200
             /\ ClosableAt(p) = {} ) =>
              /\ pc[p] = "FAILED"
              /\ ~result[p].success
              /\ result[p].status_code = 404
              /\ calls[p] = <<"GET positionRisk">>
              /\ trades = <<>> /\ exchangeOrders = <<>>

C2_Witness ==
    /\ pc["r1"] = "SUBMITTING"
    /\ args["r1"].side = "LONG"
    /\ Len(positions) = 2
    /\ positions[1].symbol = "BTCUSDT" /\ positions[1].positionAmt < 0
    /\ target["r1"] = positions[2]

\* C3: an order carries reduceOnly=true exactly when the located position's
\* position side is BOTH; for LONG and SHORT the field is absent; the order
\* carries the position's own position side.
C3_ReduceOnlyIffOneWay ==
    /\ \A p \in Procs :
          order_data[p] # NoOrder =>
              LET ps == IF target[p].positionSide = "ABSENT"
                        THEN "BOTH" ELSE target[p].positionSide
              IN  /\ order_data[p].reduceOnly = "true" <=> ps = "BOTH"
                  /\ ps \in {"LONG", "SHORT"} => order_data[p].reduceOnly = "absent"
                  /\ order_data[p].positionSide = ps
    /\ \A i \in 1..Len(exchangeOrders) :
          /\ exchangeOrders[i].reduceOnly = "true"
                <=> exchangeOrders[i].positionSide = "BOTH"
          /\ exchangeOrders[i].reduceOnly \in {"true", "absent"}

C3_Witness ==
    /\ Len(exchangeOrders) = 1
    /\ exchangeOrders[1].positionSide = "SHORT"
    /\ exchangeOrders[1].reduceOnly = "absent"
    /\ target["r1"].positionSide = "SHORT"

\* C4: once the exchange has answered the order with 200 the request ends in
\* DONE with success and the order id, whether or not the trade was written.
C4_AuditFailureSwallowed ==
    \A p \in Procs :
        (Len(replies[p]) = 2 /\ replies[p][2].status = 200) =>
            /\ pc[p] \in {"AUDIT", "DONE"}
            /\ pc[p] = "DONE" =>
                  /\ result[p].success
                  /\ result[p].status_code = 200
                  /\ result[p].order_id = order_result[p].orderId
                  /\ Made(p, "insert_trade")

C4_Witness ==
    /\ pc["r1"] = "DONE"
    /\ Made("r1", "insert_trade")
    /\ trades = <<>>
    /\ result["r1"].success
    /\ result["r1"].order_id = "7001"

\* C10: when the order is answered with a status s other than 200 the request
\* ends in FAILED with success=false, the upstream text in the error and s as
\* the status; no trade is written and the order is not submitted again.
C10_SubmissionFailureSurfaced ==
    \A p \in Procs :
        (Len(replies[p]) = 2 /\ replies[p][2].status \notin {0, 200}) =>
            /\ pc[p] = "FAILED"
            /\ ~result[p].success
            /\ result[p].status_code = replies[p][2].status
            /\ result[p].error =
                  <<"Failed to place close order: ", replies[p][2].text>>
            /\ ~Made(p, "insert_trade")
            /\ trades = <<>>
            /\ Count(p, "POST order") = 1

C10_Witness ==
    /\ pc["r1"] = "FAILED"
    /\ Len(replies["r1"]) = 2
    /\ replies["r1"][2] = Reply(503, "rate limited")
    /\ result["r1"].status_code = 503

\* the entry the invocation's own fetch shows as closable for the request
FetchedClosable(p) ==
    { i \in 1..Len(invocation[p].fetched) :
        Closable(invocation[p].fetched[i], args[p].symbol, args[p].side) }

FetchedAmt(p) ==
    LET hits == FetchedClosable(p)
    IN  IF hits = {} THEN 0
        ELSE invocation[p].fetched[CHOOSE i \in hits :
                                      \A j \in hits : i =< j].positionAmt

\* the order an invocation has posted comes from its own fetch
FreshOrder(p) ==
    /\ Count(p, "POST order") =< 1
    /\ Made(p, "POST order") =>
          /\ calls[p][1] = "GET positionRisk"
          /\ replies[p][1].status = 200
          /\ FetchedAmt(p) # 0
          /\ order_data[p].type = "MARKET"
          /\ order_data[p].quantity = QtyStr(Abs(FetchedAmt(p)))
          /\ order_data[p].side = IF FetchedAmt(p) > 0 THEN "SELL" ELSE "BUY"

\* C11: every invocation of close_position ends DONE or FAILED having posted
\* at most one market order; an order is posted only after the position fetch
\* of the same invocation answered 200, for |positionAmt| of the entry that
\* fetch located, SELL for a positive and BUY for a negative amount; what
\* reaches the exchange is that order, never one of an earlier invocation.
C11_OneFreshOrderPerInvocation ==
    /\ [](\A p \in Procs : FreshOrder(p))
    /\ [][ exchangeOrders' # exchangeOrders =>
             \E p \in Procs :
                /\ ~Made(p, "POST order")
                /\ calls'[p] = Append(calls[p], "POST order")
                /\ exchangeOrders' = Append(exchangeOrders, order_data'[p]) ]_vars
    /\ \A p \in Procs : (pc[p] = "LOCATING") ~> Terminal(p)

\* the second invocation has posted an order for another quantity than the
\* first, the position having moved in between
C11_Witness ==
    /\ invocation["r1"].n = 2
    /\ Made("r1", "POST order")
    /\ Len(exchangeOrders) = 2
    /\ exchangeOrders[1].quantity # exchangeOrders[2].quantity
    /\ exchangeOrders[2] = order_data["r1"]
    /\ Terminal("r1")

\* an amount that went from a to b was neither flipped nor opened nor grown
OnlyReduced(a, b) ==
    /\ a >= 0 => (0 =< b /\ b =< a)
    /\ a =< 0 => (a =< b /\ b =< 0)

\* C12: two close requests served at once, whatever the order of their
\* fetches and submissions, put at most two orders on the exchange (one of
\* them the duplicate), and no order of theirs opens a position, flips one or
\* makes one larger: what the duplicate finds already closed it leaves alone.
C12_DuplicateCloseIsNoOp ==
    /\ [](Len(exchangeOrders) =< Cardinality(Procs))
    /\ [][ /\ Len(positions') = Len(positions)
           /\ \A i \in 1..Len(positions) :
                 OnlyReduced(positions[i].positionAmt,
                             positions'[i].positionAmt) ]_vars

\* both requests, for the same symbol and side, fetched the open position,
\* and both their orders, the same order twice, were accepted by the exchange
C12_Witness ==
    /\ args["r1"] = args["r2"]
    /\ FetchedAmt("r1") # 0
    /\ FetchedAmt("r1") = FetchedAmt("r2")
    /\ pc["r1"] = "DONE" /\ pc["r2"] = "DONE"
    /\ Len(exchangeOrders) = 2
    /\ exchangeOrders[1] = exchangeOrders[2]
    /\ \A i \in 1..Len(positions) :
          positions[i].positionSide \in {"BOTH", args["r1"].side} =>
             positions[i].positionAmt = 0

(***************************************************************************)
(* Properties of get_position_details                                      *)
(***************************************************************************)
Live == exchange_position # NoPosition
TranchesLoaded == rpc \in {"TRADES", "RELATIONSHIPS", "ORDERS", "AGGREGATE", "DONE"}
IdsCollected == rpc \in {"ORDERS", "AGGREGATE", "DONE"}
StatusesResolved == rpc \in {"AGGREGATE", "DONE"}

\* the rows of the ledger's tranche table that belong to the request
StoredRows ==
    { i \in 1..Len(position_tranches.rows) :
        /\ position_tranches.rows[i].symbol = rargs.symbol
        /\ position_tranches.rows[i].position_side = rargs.side }

StoredSum(F(_)) ==
    SumSeq([i \in 1..Len(position_tranches.rows) |->
              IF i \in StoredRows THEN F(position_tranches.rows[i]) ELSE 0])

StoredQty(r) == r.total_quantity
StoredCost(r) == r.avg_entry_price * r.total_quantity
StoredPnlOf(r) == r.unrealized_pnl

\* every summary field is the exchange position's
AllFromLive ==
    LET amt == exchange_position.positionAmt
        diff == exchange_position.markPrice - exchange_position.entryPrice
    IN  /\ summary.total_quantity = [num |-> Abs(amt), den |-> 1]
        /\ summary.avg_entry_price = [num |-> exchange_position.entryPrice, den |-> 1]
        /\ summary.unrealized_pnl = [num |-> diff * amt, den |-> 1]
        /\ summary.total_margin = [num |-> exchange_position.initialMargin, den |-> 1]

\* every summary field is the tranche rows'
AllFromTranches ==
    LET qty == StoredSum(StoredQty)
        cost == StoredSum(StoredCost)
        lev == IF config.available /\ config.configured THEN config.leverage ELSE 10
        avg == summary.avg_entry_price
        mar == summary.total_margin
    IN  /\ summary.total_quantity = [num |-> qty, den |-> 1]
        /\ IF qty > 0 THEN avg.num * qty = cost * avg.den ELSE avg.num = 0
        /\ summary.unrealized_pnl = [num |-> StoredSum(StoredPnlOf), den |-> 1]
        /\ IF lev > 0 THEN mar.num * avg.den * lev = qty * avg.num * mar.den
           ELSE mar.num = 0

AllZero ==
    /\ summary.total_quantity.num = 0
    /\ summary.avg_entry_price.num = 0
    /\ summary.unrealized_pnl.num = 0
    /\ summary.total_margin.num = 0

\* C5: the four summary fields of a response come all from the exchange
\* position when there is one, else all from the tranche rows when there are
\* any, else are all zero; no field is taken from the other source.
C5_OneSourcePerSummary ==
    rpc = "DONE" =>
        /\ Live => AllFromLive
        /\ (~Live /\ tranches # <<>>) => AllFromTranches
        /\ (~Live /\ tranches = <<>>) => AllZero

C5_Witness ==
    /\ rpc = "DONE"
    /\ Live
    /\ Len(tranches) = 2
    /\ summary.avg_entry_price = Whole(200)
    /\ StoredSum(StoredCost) = 500

\* C6: with a live position every returned tranche has unrealized_pnl 0 and
\* its stored quantity and entry price; without one the stored unrealized_pnl
\* is returned unchanged.
C6_TranchePnlZeroedWhenLive ==
    TranchesLoaded =>
        /\ position_tranches.exists => Len(tranches) = Cardinality(StoredRows)
        /\ \A i \in 1..Len(tranches) :
              LET stored == position_tranches.rows[tranches[i].tranche_id]
              IN  /\ tranches[i].tranche_id \in StoredRows
                  /\ tranches[i].total_quantity = stored.total_quantity
                  /\ tranches[i].avg_entry_price = stored.avg_entry_price
                  /\ Live => tranches[i].unrealized_pnl = 0
                  /\ ~Live => tranches[i].unrealized_pnl = stored.unrealized_pnl

C6_Witness ==
    /\ rpc = "DONE"
    /\ Live
    /\ Len(tranches) = 2
    /\ position_tranches.rows[1].unrealized_pnl = 10
    /\ tranches[1].unrealized_pnl = 0
    /\ tranches[1].total_quantity = 1 /\ tranches[2].avg_entry_price = 200

\* the rows of the relationship table that belong to the request's tranche tid
\* and name a TP or an SL order
RowsOfTranche(tid) ==
    { i \in 1..Len(order_relationships_table) :
        /\ order_relationships_table[i].symbol = rargs.symbol
        /\ order_relationships_table[i].position_side = rargs.side
        /\ order_relationships_table[i].tranche_id = tid
        /\ \/ order_relationships_table[i].tp_order_id # 0
           \/ order_relationships_table[i].sl_order_id # 0 }

\* the rows superseded by a newer row of the same tranche
OlderRows ==
    { i \in 1..Len(order_relationships_table) :
        \E k \in 1..Len(tranches) :
            /\ i \in RowsOfTranche(tranches[k].tranche_id)
            /\ \E j \in RowsOfTranche(tranches[k].tranche_id) :
                  order_relationships_table[j].created_at
                      > order_relationships_table[i].created_at }

\* the ids the classification may use: the tranches' own and those of the rows
\* that no newer row of the same tranche supersedes
CurrentTpIds ==
    { Str(position_tranches.rows[i].tp_order_id) :
        i \in { j \in StoredRows : position_tranches.rows[j].tp_order_id # 0 } }
    \cup
    { Str(order_relationships_table[i].tp_order_id) :
        i \in { j \in 1..Len(order_relationships_table) :
                  /\ j \notin OlderRows
                  /\ order_relationships_table[j].tp_order_id # 0 } }

CurrentSlIds ==
    { Str(position_tranches.rows[i].sl_order_id) :
        i \in { j \in StoredRows : position_tranches.rows[j].sl_order_id # 0 } }
    \cup
    { Str(order_relationships_table[i].sl_order_id) :
        i \in { j \in 1..Len(order_relationships_table) :
                  /\ j \notin OlderRows
                  /\ order_relationships_table[j].sl_order_id # 0 } }

\* C7: with several relationship rows for one tranche, tp_order_ids and
\* sl_order_ids hold only the ids of the row with the greatest created_at
\* (and the tranche's own); an id found only in older rows is in neither.
C7_LatestRelationshipOnly ==
    IdsCollected =>
        /\ tp_order_ids \subseteq CurrentTpIds
        /\ sl_order_ids \subseteq CurrentSlIds

\* what the ledger and the exchange hold for an order id
HasLiveOrder(id) ==
    /\ credentials
    /\ "openOrders" \notin failures
    /\ \E i \in 1..Len(open_orders) : Str(open_orders[i].orderId) = id

HasCacheRow(id) ==
    \E i \in 1..Len(order_status) :
        /\ order_status[i].symbol = rargs.symbol
        /\ Str(order_status[i].order_id) = id

\* C8: every TP/SL id with a live open order or a cache row is a key of
\* order_statuses, the live entry winning over the cache row; a TP/SL id with
\* neither is not a key.  (Reads whose cache query failed are left aside.)
C8_EveryKnownIdResolved ==
    (StatusesResolved /\ "order_status" \notin failures) =>
        \A id \in tp_order_ids \cup sl_order_ids :
            /\ (HasLiveOrder(id) \/ HasCacheRow(id)) <=> id \in DOMAIN order_statuses
            /\ HasLiveOrder(id) =>
                  /\ id \in DOMAIN order_statuses
                  /\ order_statuses[id].status = "NEW"

\* C9: the read never ends by raising, whichever source fails.
C9_ReadNeverRaises == rpc # "RAISED"

\* the stored rows of the request, as (quantity, entry price, stored PnL)
StoredTriples ==
    [i \in 1..Len(position_tranches.rows) |->
        << position_tranches.rows[i].total_quantity,
           position_tranches.rows[i].avg_entry_price,
           position_tranches.rows[i].unrealized_pnl >>]

Fallback == rpc = "DONE" /\ ~Live /\ tranches # <<>>

\* C13: without a live position and with tranches, total_quantity is the sum
\* of the tranche quantities, avg_entry_price their quantity-weighted mean
\* entry price, unrealized_pnl the sum of the stored PnLs and num_tranches
\* the number of tranches; quantities 2 and 3 at 100 and 200 give 160, and
\* (1, 100, PnL 10) with (1, 120, PnL -5) gives 110 and PnL 5.
C13_FallbackSummary ==
    Fallback =>
        LET qty == StoredSum(StoredQty)
            avg == summary.avg_entry_price
        IN  /\ summary.total_quantity = [num |-> qty, den |-> 1]
            /\ avg.den > 0
            /\ qty > 0 => avg.num * qty = StoredSum(StoredCost) * avg.den
            /\ summary.unrealized_pnl =
                  [num |-> StoredSum(StoredPnlOf), den |-> 1]
            /\ summary.num_tranches = Cardinality(StoredRows)
            /\ summary.num_tranches = Len(tranches)
            /\ (StoredRows = {1, 2} /\ StoredTriples[1][1] = 2
                   /\ StoredTriples[1][2] = 100 /\ StoredTriples[2][1] = 3
                   /\ StoredTriples[2][2] = 200)
                 => avg = [num |-> 160, den |-> 1]
            /\ (StoredRows = {1, 2} /\ StoredTriples[1] = <<1, 100, 10>>
                   /\ StoredTriples[2] = <<1, 120, -5>>)
                 => /\ avg = [num |-> 110, den |-> 1]
                    /\ summary.unrealized_pnl = [num |-> 5, den |-> 1]

\* the first example of the claim has been summarised
C13_Witness ==
    /\ Fallback
    /\ StoredRows = {1, 2}
    /\ StoredTriples[1][1] = 2 /\ StoredTriples[1][2] = 100
    /\ StoredTriples[2][1] = 3 /\ StoredTriples[2][2] = 200
    /\ summary.total_quantity.num = 5
    /\ summary.avg_entry_price.num = 160

\* C14: with a live position the summary has total_quantity |positionAmt|,
\* avg_entry_price entryPrice, total_margin initialMargin and unrealized_pnl
\* (mark - entry) * amt for a positive amount, (entry - mark) * |amt| for a
\* negative one and 0 for none; 1.5 (three steps of 0.5) entered at 30000 and
\* marked at 31000 gives 1500 (3000 per half step) and quantity 1.5.
C14_LiveSummary ==
    (rpc = "DONE" /\ Live) =>
        LET amt == exchange_position.positionAmt
            entry == exchange_position.entryPrice
            mark == exchange_position.markPrice
            pnl == summary.unrealized_pnl
        IN  /\ summary.total_quantity = [num |-> Abs(amt), den |-> 1]
            /\ summary.avg_entry_price = [num |-> entry, den |-> 1]
            /\ summary.total_margin =
                  [num |-> exchange_position.initialMargin, den |-> 1]
            /\ amt > 0 => pnl = [num |-> (mark - entry) * amt, den |-> 1]
            /\ amt < 0 => pnl = [num |-> (entry - mark) * Abs(amt), den |-> 1]
            /\ amt = 0 => pnl = [num |-> 0, den |-> 1]
            /\ (amt = 3 /\ entry = 30000 /\ mark = 31000)
                 => /\ pnl = [num |-> 3000, den |-> 1]
                    /\ summary.total_quantity = [num |-> 3, den |-> 1]

\* a short position marked above its entry has been summarised at a loss
C14_Witness ==
    /\ rpc = "DONE"
    /\ Live
    /\ exchange_position.positionAmt < 0
    /\ exchange_position.markPrice > exchange_position.entryPrice
    /\ summary.unrealized_pnl.num < 0
    /\ summary.total_margin.num = 30

\* C15: the summary computed from the tranches never divides by zero: with
\* a summed quantity of 0 avg_entry_price is 0, with a leverage of 0
\* total_margin is 0, and the leverage is 10 when the configuration cannot
\* be read or does not have the symbol.
C15_NoDivisionByZero ==
    Fallback =>
        LET qty == StoredSum(StoredQty)
            avg == summary.avg_entry_price
            mar == summary.total_margin
            defaulted == ~config.available \/ ~config.configured
        IN  /\ avg.den > 0
            /\ mar.den > 0
            /\ qty = 0 => avg = [num |-> 0, den |-> 1]
            /\ (~defaulted /\ config.leverage = 0) =>
                  mar = [num |-> 0, den |-> 1]
            /\ defaulted => mar.num * avg.den * 10 = qty * avg.num * mar.den

\* tranches without quantity have been summarised under a leverage of 0
C15_Witness ==
    /\ Fallback
    /\ StoredSum(StoredQty) = 0
    /\ config.available /\ config.configured /\ config.leverage = 0
    /\ summary.avg_entry_price = [num |-> 0, den |-> 1]
    /\ summary.total_margin = [num |-> 0, den |-> 1]

\* the open orders were fetched, so the live part of order_statuses was built
OpenOrdersFetched == credentials /\ "openOrders" \notin failures

\* C16: a live open order is in the result exactly when its type contains
\* TAKE_PROFIT or STOP or its id is a TP or SL id; its effective type is
\* TP_LIMIT for a TP id of type LIMIT, else SL_STOP for an SL id whose type
\* contains STOP, else its own type.  An id resolved from the cache alone is
\* labelled TP_ORDER when it is a TP id (also when it is an SL id too), else
\* SL_ORDER, with executed_qty 0.
C16_EffectiveTypePriority ==
    (StatusesResolved /\ credentials) =>
        /\ OpenOrdersFetched =>
              \A i \in 1..Len(open_orders) :
                 LET o == open_orders[i]
                     id == Str(o.orderId)
                     expected ==
                         IF id \in tp_order_ids /\ o.type = "LIMIT"
                         THEN "TP_LIMIT"
                         ELSE IF id \in sl_order_ids /\ ContainsStop(o.type)
                         THEN "SL_STOP"
                         ELSE o.type
                 IN  /\ id \in DOMAIN order_statuses <=>
                           \/ ContainsTakeProfit(o.type)
                           \/ ContainsStop(o.type)
                           \/ id \in tp_order_ids \cup sl_order_ids
                     /\ id \in DOMAIN order_statuses =>
                           /\ order_statuses[id].type = expected
                           /\ order_statuses[id].status = o.status
        /\ \A id \in DOMAIN order_statuses :
              ~HasLiveOrder(id) =>
                 /\ order_statuses[id].type =
                       IF id \in tp_order_ids THEN "TP_ORDER" ELSE "SL_ORDER"
                 /\ order_statuses[id].executed_qty = 0
                 /\ id \in tp_order_ids \cup sl_order_ids

\* a live LIMIT order that is a TP id, and a cached order that is a TP id and
\* an SL id, have both been labelled
C16_Witness ==
    /\ StatusesResolved
    /\ OpenOrdersFetched
    /\ {"1", "2"} \subseteq DOMAIN order_statuses
    /\ "2" \in tp_order_ids
    /\ order_statuses["2"].type = "TP_LIMIT"
    /\ "1" \in tp_order_ids \cap sl_order_ids
    /\ ~HasLiveOrder("1")
    /\ order_statuses["1"].type = "TP_ORDER"

\* the exchange holds a position of the request's symbol in its direction
MatchingLive ==
    \E i \in 1..Len(positions) :
        /\ positions[i].symbol = rargs.symbol
        /\ rargs.side = "LONG" => positions[i].positionAmt > 0
        /\ rargs.side = "SHORT" => positions[i].positionAmt < 0
        /\ positions[i].positionAmt # 0

\* C17: the live position a read of (symbol, side) uses, for the summary and
\* for zeroing the tranches' PnL, has the direction of the side (a positive
\* amount for LONG, a negative one for SHORT); without such a position on the
\* exchange the read reports none of the other side's quantity, entry price
\* or PnL.
C17_LivePositionMatchesSide ==
    /\ Live =>
          /\ rargs.side = "LONG" => exchange_position.positionAmt > 0
          /\ rargs.side = "SHORT" => exchange_position.positionAmt < 0
    /\ (rpc = "DONE" /\ ~MatchingLive /\ tranches = <<>>) => AllZero

====
